---- MODULE Spec2Model ----
(***************************************************************************)
(* Kinesis connector: KinesisSplitReader (source/reader.rs) and            *)
(* KinesisSplitEnumerator (enumerator/client.rs).                          *)
(*                                                                         *)
(* Strings that the code compares (sequence numbers) are tuples of digits, *)
(* "" is <<>>, and Rust's `<` on str is the lexicographic StrLess.         *)
(* Option<T> is a tuple: None is <<>>, Some(x) is <<x>>.                   *)
(***************************************************************************)
EXTENDS Integers, Sequences, FiniteSets, TLC

\* ------------------------------------------------------------------ bounds
MaxLog == 2
MaxBatch == 2
MaxTokens == 3
MaxRestarts == 1
MaxPages == 3

\* ------------------------------------------------------- values and helpers
None == <<>>
Some(x) == <<x>>

Min(a, b) == IF a < b THEN a ELSE b

\* The sequence numbers the stream service may hand out.
SeqNums == { <<1>>, <<1, 2>>, <<2>> }

\* The one shard of the stream the reader is assigned to.
StreamShard == "shardId-0"
StreamName == "stream"

\* str::lt : byte-wise lexicographic order, a proper prefix is smaller.
RECURSIVE StrLess(_, _)
StrLess(a, b) ==
    IF b = <<>> THEN FALSE
    ELSE IF a = <<>> THEN TRUE
    ELSE IF a[1] < b[1] THEN TRUE
    ELSE IF a[1] > b[1] THEN FALSE
    ELSE StrLess(Tail(a), Tail(b))

StrLeq(a, b) == a = b \/ StrLess(a, b)

\* KinesisOffset
OffsetNone == [tag |-> "None", seq |-> <<>>]
Earliest == [tag |-> "Earliest", seq |-> <<>>]
SequenceNumber(s) == [tag |-> "SequenceNumber", seq |-> s]

\* Shard contents: strictly increasing sequence numbers (service order).
Increasing(s) == \A i \in 1..Len(s) : \A j \in 1..Len(s) : i < j => StrLess(s[i], s[j])

Logs == { s \in UNION { [1..n -> SeqNums] : n \in 0..Min(MaxLog, Cardinality(SeqNums)) } : Increasing(s) }

\* ---------------------------------------------------------------- variables
VARIABLES
    log,                  \* service: records of the shard (their sequence numbers)
    consumed,             \* service: ids of the iterators a successful GetRecords used up
    stream_name,          \* KinesisSplitReader.stream_name
    shard_id,             \* KinesisSplitReader.shard_id
    latest_sequence_num,  \* KinesisSplitReader.latest_sequence_num
    shard_iter,           \* KinesisSplitReader.shard_iter
    assigned_split,       \* KinesisSplitReader.assigned_split
    pc,                   \* position inside next(): idle / fetch / renew / sleep / dead
    result,               \* what the last next() returned: none / Ok / Err
    delivered,            \* the record_collection of the last Ok return
    emitted,              \* every sequence number handed to the caller by this reader
    lastFetch,            \* the last get_records call: iterator used, outcome, records
    lastRenew,            \* the last renew_shard_iter request and its outcome
    expiredAt,            \* Some(last emitted) at the latest ExpiredIterator failure
    backoffDue,           \* an empty fetch happened and no sleep followed yet
    hist,                 \* what this reader's fetches have met so far
    restarts,             \* number of readers rebuilt from a checkpoint
    ckpt,                 \* how the current reader was built from a checkpoint
    sib_pc,               \* sibling task merged on the same thread
    e_pages, e_pc, e_next_token, e_shard_collect, e_requests, e_result

readerVars == <<stream_name, shard_id, latest_sequence_num, shard_iter, assigned_split>>
callVars == <<pc, result, delivered, emitted>>
obsVars == <<lastFetch, lastRenew, expiredAt, backoffDue, hist>>
enumVars == <<e_pages, e_pc, e_next_token, e_shard_collect, e_requests, e_result>>
vars == <<log, consumed, readerVars, callVars, obsVars, restarts, ckpt, sib_pc, enumVars>>


\* ------------------------------------------------------------ stream service
\* Number of records whose sequence number is <= seq: the position an
\* AFTER_SEQUENCE_NUMBER iterator starts at.
PosAfter(lg, seq) == Cardinality({ i \in 1..Len(lg) : StrLeq(lg[i], seq) })

\* Iterator strings are opaque: an id the service has not seen consumed and
\* that differs from the one the reader holds.
FreshIds(used, cur) == { i \in 1..MaxTokens : i \notin used /\ (cur = None \/ cur[1].id # i) }

FreshId(used, cur) == CHOOSE i \in FreshIds(used, cur) : \A j \in FreshIds(used, cur) : i <= j

\* Where an iterator of the requested type starts.
IteratorPos(lg, req) ==
    CASE req.type = "TRIM_HORIZON" -> 0
      [] req.type = "AT_SEQUENCE_NUMBER" -> Cardinality({ i \in 1..Len(lg) : StrLess(lg[i], req.seq) })
      [] OTHER -> PosAfter(lg, req.seq)

\* GetShardIterator: rejects an unknown shard and an empty starting sequence
\* number; otherwise fails in transit or answers with an iterator (the
\* response field is optional).
GetShardIterator(lg, req, used, cur) ==
    IF req.shard_id # StreamShard \/ (req.type # "TRIM_HORIZON" /\ req.seq = <<>>)
    THEN { [kind |-> "Rejected", iter |-> None] }
    ELSE { [kind |-> "Failure", iter |-> None], [kind |-> "Ok", iter |-> None] }
         \cup (IF FreshIds(used, cur) = {} THEN {}
               ELSE { [kind |-> "Ok",
                       iter |-> Some([pos |-> IteratorPos(lg, req), id |-> FreshId(used, cur)])] })

GetRecordsErrors == { "DispatchFailure", "ExpiredIterator", "ProvisionedThroughputExceeded", "OtherServiceError" }

\* GetRecords with iterator tok: an error, or up to MaxBatch records from the
\* iterator's position in shard order with the next iterator; the next
\* iterator is absent once a closed shard is read to its end.
GetRecords(lg, tok, used) ==
    LET avail == Min(MaxBatch, Len(lg) - tok.pos)
        fresh == FreshIds(used, Some(tok))
        nxt(p) == Some([pos |-> p, id |-> FreshId(used, Some(tok))])
    IN  { [kind |-> e, records |-> None, next_shard_iterator |-> None] : e \in GetRecordsErrors }
        \cup (IF fresh = {} THEN {}
              ELSE { [kind |-> "Ok", records |-> Some(SubSeq(lg, tok.pos + 1, tok.pos + k)),
                      next_shard_iterator |-> nxt(tok.pos + k)] : k \in 0..avail }
                   \cup { [kind |-> "Ok", records |-> None, next_shard_iterator |-> nxt(tok.pos)] })
        \cup (IF Len(lg) - tok.pos <= MaxBatch
              THEN { [kind |-> "Ok", records |-> Some(SubSeq(lg, tok.pos + 1, Len(lg))),
                      next_shard_iterator |-> None] }
              ELSE {})

\* --------------------------------------------------------- KinesisSplitReader
\* is_stopping with the bound itself still let through.
is_stopping_inclusive(cur_seq_num, split) ==
    IF split.end_position.tag = "SequenceNumber"
    THEN StrLeq(cur_seq_num, split.end_position.seq)
    ELSE TRUE

\* fn is_stopping: true while the record is before the stop bound.
is_stopping(cur_seq_num, split) ==
    IF split.end_position.tag = "SequenceNumber"
    THEN StrLess(cur_seq_num, split.end_position.seq)
    ELSE TRUE

\* Option::unwrap_or_default on the records of a response.
unwrap_or_default(records) == IF records = None THEN <<>> ELSE records[1]

\* KinesisMessage::new(self.shard_id.clone(), record)
KinesisMessage(sid, record) == [shard_id |-> sid, sequence_number |-> record]

\* The record loop advancing latest_sequence_num before the is_stopping test.
RECURSIVE RecordLoop_latest_first(_, _, _, _, _)
RecordLoop_latest_first(records, split, sid, record_collection, latest) ==
    IF records = <<>>
    THEN [record_collection |-> record_collection, latest_sequence_num |-> latest]
    ELSE IF ~is_stopping(Head(records), split)
    THEN [record_collection |-> record_collection, latest_sequence_num |-> Head(records)]
    ELSE RecordLoop_latest_first(Tail(records), split, sid,
                                 Append(record_collection, KinesisMessage(sid, Head(records))),
                                 Head(records))

\* The `for record in records` loop of next(): stops at the first record
\* that is_stopping rejects, otherwise advances latest_sequence_num and
\* pushes the message.
RECURSIVE RecordLoop(_, _, _, _, _)
RecordLoop(records, split, sid, record_collection, latest) ==
    IF records = <<>>
    THEN [record_collection |-> record_collection, latest_sequence_num |-> latest]
    ELSE IF ~is_stopping(Head(records), split)
    THEN [record_collection |-> record_collection, latest_sequence_num |-> latest]
    ELSE RecordLoop(Tail(records), split, sid,
                    Append(record_collection, KinesisMessage(sid, Head(records))),
                    Head(records))

\* The error match with the throughput arm falling into the renewal arm.
ErrorArm_throughput_renews(kind) ==
    CASE kind = "DispatchFailure" -> "return"
      [] kind = "ExpiredIterator" -> "renew"
      [] kind = "ProvisionedThroughputExceeded" -> "renew"
      [] OTHER -> "return"

\* The error match with a dispatch failure falling into the renewal arm.
ErrorArm_dispatch_renews(kind) ==
    CASE kind = "DispatchFailure" -> "renew"
      [] kind = "ExpiredIterator" -> "renew"
      [] kind = "ProvisionedThroughputExceeded" -> "return"
      [] OTHER -> "return"

\* The match on the get_records error: which arm returns and which renews.
ErrorArm(kind) ==
    CASE kind = "DispatchFailure" -> "return"
      [] kind = "ExpiredIterator" -> "renew"
      [] kind = "ProvisionedThroughputExceeded" -> "return"
      [] OTHER -> "return"

\* The empty branch without the sleep.
EmptyArm_no_sleep == "continue"

\* `if records.is_empty() { thread::sleep(200ms); continue; }`
EmptyArm == "sleep"

\* Renewal from the oldest record.
RenewRequest_trim_horizon(sid, latest) ==
    [shard_id |-> sid, type |-> "TRIM_HORIZON", seq |-> latest]

\* Renewal at, not after, the latest sequence number.
RenewRequest_at_sequence(sid, latest) ==
    [shard_id |-> sid, type |-> "AT_SEQUENCE_NUMBER", seq |-> latest]

\* The request renew_shard_iter sends.
RenewRequest(sid, latest) ==
    [shard_id |-> sid, type |-> "AFTER_SEQUENCE_NUMBER", seq |-> latest]

\* The iterator kept over a successful fetch instead of the returned one.
next_iter_keep(cur, resp) == cur

\* The iterator replaced only when the response carries a next one.
next_iter_unless_closed(cur, resp) ==
    IF resp.next_shard_iterator = None THEN cur ELSE resp.next_shard_iterator

\* `self.shard_iter = get_record_output.next_shard_iterator.clone()`
next_iter(cur, resp) == resp.next_shard_iterator

\* fn get_state
get_state ==
    [stream_name |-> stream_name, shard_id |-> shard_id, sequence_number |-> latest_sequence_num]

\* The request KinesisSplitReader::new sends for a ConnectorStateV2::State.
NewRequest(state) ==
    [shard_id |-> state.identifier,
     type |-> IF state.start_offset # <<>> THEN "AFTER_SEQUENCE_NUMBER" ELSE "TRIM_HORIZON",
     seq |-> state.start_offset]

\* KinesisSplitReader::new for a ConnectorStateV2::State, given the iterator
\* the service answered with.
KinesisSplitReader_new(state, iter) ==
    [stream_name |-> StreamName,
     shard_id |-> "",
     latest_sequence_num |-> <<>>,
     shard_iter |-> iter,
     assigned_split |->
        Some([shard_id |-> state.identifier,
              start_position |-> IF state.start_offset # <<>>
                                 THEN SequenceNumber(state.start_offset) ELSE Earliest,
              end_position |-> IF state.end_offset # <<>>
                               THEN SequenceNumber(state.end_offset) ELSE OffsetNone])]

\* restore_from_state before its renew_shard_iter call.
restore_fields(reader, state) ==
    [reader EXCEPT !.stream_name = state.stream_name,
                   !.shard_id = state.shard_id,
                   !.latest_sequence_num = state.sequence_number]

\* ------------------------------------------------------------- construction
\* The ConnectorStateV2::State values a reader is built from.
NewStates ==
    [identifier : {StreamShard}, start_offset : {<<>>} \cup SeqNums, end_offset : {<<>>} \cup SeqNums]

\* KinesisSplitReaderState values handed to restore_from_state from outside.
ExternalStates ==
    [stream_name : {StreamName}, shard_id : {"", StreamShard}, sequence_number : {<<>>} \cup SeqNums]

\* Readers that new() returns Ok for.
NewReaders(lg) ==
    UNION { { KinesisSplitReader_new(st, resp.iter) :
                resp \in { r \in GetShardIterator(lg, NewRequest(st), {}, None) : r.kind = "Ok" } } :
            st \in NewStates }

\* Readers after new() and a restore_from_state that returned Ok.
RestoredReaders(lg) ==
    UNION { { [restore_fields(rd, ext) EXCEPT !.shard_iter = resp.iter] :
                resp \in { r \in GetShardIterator(lg, RenewRequest(ext.shard_id, ext.sequence_number),
                                                  {}, rd.shard_iter) : r.kind = "Ok" } } :
            <<rd, ext>> \in NewReaders(lg) \X ExternalStates }

NoFetch == [kind |-> "none", iter |-> None, records |-> <<>>, next |-> None, retry |-> FALSE]
NoRenew == [kind |-> "none", req |-> RenewRequest("", <<>>), iter |-> None, fresh |-> FALSE]
NoCkpt == [via |-> "none", state |-> [stream_name |-> StreamName, shard_id |-> "", sequence_number |-> <<>>],
           prev |-> None, outcome |-> "none", anchor |-> None]

\* stopped: a record at or past end_position was met; closed: a fetch came
\* back without a next iterator; failed: a fetch failed with an error other
\* than ExpiredIterator and ProvisionedThroughputExceeded and no fetch has
\* succeeded since.
NoHist == [stopped |-> FALSE, closed |-> FALSE, failed |-> FALSE]

\* The sequence number a reader is positioned after when it is built: the
\* one restore_from_state was given, else the start offset new() was given.
AnchorOf(rd) ==
    IF rd.latest_sequence_num # <<>> THEN Some(rd.latest_sequence_num)
    ELSE IF rd.assigned_split[1].start_position.tag = "SequenceNumber"
    THEN Some(rd.assigned_split[1].start_position.seq)
    ELSE None

EnumIdle ==
    /\ e_pages = <<>>
    /\ e_pc = "off"
    /\ e_next_token = None
    /\ e_shard_collect = <<>>
    /\ e_requests = <<>>
    /\ e_result = None

Init ==
    /\ log \in Logs
    /\ consumed = {}
    /\ \E rd \in NewReaders(log) \cup RestoredReaders(log) :
        /\ stream_name = rd.stream_name
        /\ shard_id = rd.shard_id
        /\ latest_sequence_num = rd.latest_sequence_num
        /\ shard_iter = rd.shard_iter
        /\ assigned_split = rd.assigned_split
        /\ ckpt = [NoCkpt EXCEPT !.anchor = AnchorOf(rd)]
    /\ pc = "idle"
    /\ result = "none"
    /\ delivered = <<>>
    /\ emitted = <<>>
    /\ lastFetch = NoFetch
    /\ lastRenew = NoRenew
    /\ expiredAt = None
    /\ backoffDue = FALSE
    /\ hist = NoHist
    /\ restarts = 0
    /\ sib_pc = "absent"
    /\ EnumIdle

\* The reader merged with a sibling task.
InitMulti ==
    /\ log \in Logs
    /\ consumed = {}
    /\ \E rd \in NewReaders(log) :
        /\ rd.assigned_split[1].start_position = Earliest
        /\ rd.assigned_split[1].end_position = OffsetNone
        /\ stream_name = rd.stream_name
        /\ shard_id = rd.shard_id
        /\ latest_sequence_num = rd.latest_sequence_num
        /\ shard_iter = rd.shard_iter
        /\ assigned_split = rd.assigned_split
    /\ pc = "idle"
    /\ result = "none"
    /\ delivered = <<>>
    /\ emitted = <<>>
    /\ lastFetch = NoFetch
    /\ lastRenew = NoRenew
    /\ expiredAt = None
    /\ backoffDue = FALSE
    /\ hist = NoHist
    /\ restarts = 0
    /\ ckpt = NoCkpt
    /\ sib_pc = "ready"
    /\ EnumIdle

\* ---------------------------------------------------------------- next()
\* std::thread::sleep blocks the thread the merged tasks are polled on.
ThreadFree == sib_pc # "sleeping"

SeqsOf(coll) == [i \in 1..Len(coll) |-> coll[i].sequence_number]

\* `return ...` of next(): the caller receives res and the collection.
Return(res, coll) ==
    /\ pc' = "idle"
    /\ result' = res
    /\ delivered' = coll
    /\ emitted' = emitted \o SeqsOf(coll)

\* Top of `loop`: without an iterator next() returns the "invalid shard
\* iter" error, otherwise it goes on to get_records.
LoopHead(iter) ==
    IF iter = None
    THEN Return("Err", <<>>)
    ELSE pc' = "fetch" /\ UNCHANGED <<result, delivered, emitted>>

\* Where an arm of next() continues.
Goto(arm, iter) ==
    CASE arm = "return" -> Return("Err", <<>>)
      [] arm = "continue" -> LoopHead(iter)
      [] OTHER -> pc' = arm /\ UNCHANGED <<result, delivered, emitted>>

\* The caller invokes next().
Call ==
    /\ pc = "idle"
    /\ ThreadFree
    /\ IF shard_iter = None
       THEN Return("Err", <<>>)
       ELSE pc' = "fetch" /\ result' = "none" /\ delivered' = <<>> /\ UNCHANGED emitted
    /\ lastFetch' = NoFetch
    /\ lastRenew' = NoRenew
    /\ UNCHANGED <<log, consumed, readerVars, expiredAt, backoffDue, hist, restarts, ckpt, sib_pc, enumVars>>

\* The record lies before the split's end_position (always, when that is
\* not a SequenceNumber).
BeforeEnd(seq, split) ==
    split.end_position.tag = "SequenceNumber" => StrLess(seq, split.end_position.seq)

\* self.get_records(iter).await and the handling of its outcome.
DoGetRecords ==
    /\ pc = "fetch"
    /\ ThreadFree
    /\ \E resp \in GetRecords(log, shard_iter[1], consumed) :
        /\ lastFetch' = [kind |-> resp.kind, iter |-> shard_iter,
                         records |-> unwrap_or_default(resp.records),
                         next |-> resp.next_shard_iterator, retry |-> lastRenew.fresh]
        /\ lastRenew' = [lastRenew EXCEPT !.fresh = FALSE]
        /\ IF resp.kind = "Ok"
           THEN /\ consumed' = consumed \cup {shard_iter[1].id}
                /\ shard_iter' = next_iter(shard_iter, resp)
                /\ UNCHANGED expiredAt
                /\ LET records == unwrap_or_default(resp.records)
                   IN  IF records = <<>>
                       THEN /\ backoffDue' = TRUE
                            /\ Goto(EmptyArm, next_iter(shard_iter, resp))
                            /\ hist' = [hist EXCEPT !.closed = @ \/ resp.next_shard_iterator = None,
                                                     !.failed = FALSE]
                            /\ UNCHANGED latest_sequence_num
                       ELSE LET out == RecordLoop(records, assigned_split[1], shard_id,
                                                  <<>>, latest_sequence_num)
                            IN  /\ latest_sequence_num' = out.latest_sequence_num
                                /\ Return("Ok", out.record_collection)
                                /\ hist' = [hist EXCEPT
                                              !.closed = @ \/ resp.next_shard_iterator = None,
                                              !.failed = FALSE,
                                              !.stopped = @ \/ \E i \in 1..Len(records) :
                                                                  ~BeforeEnd(records[i], assigned_split[1])]
                                /\ UNCHANGED backoffDue
           ELSE /\ expiredAt' = IF resp.kind = "ExpiredIterator" THEN Some(Len(emitted)) ELSE expiredAt
                /\ hist' = [hist EXCEPT !.failed = @ \/ resp.kind \in {"DispatchFailure", "OtherServiceError"}]
                /\ Goto(ErrorArm(resp.kind), shard_iter)
                /\ UNCHANGED <<consumed, shard_iter, latest_sequence_num, backoffDue>>
    /\ UNCHANGED <<log, stream_name, shard_id, assigned_split, restarts, ckpt, sib_pc, enumVars>>

\* self.renew_shard_iter().await followed by `return self.next().await`.
DoRenew ==
    /\ pc = "renew"
    /\ ThreadFree
    /\ LET req == RenewRequest(shard_id, latest_sequence_num)
       IN  \E resp \in GetShardIterator(log, req, consumed, shard_iter) :
            /\ lastRenew' = [kind |-> resp.kind, req |-> req, iter |-> resp.iter, fresh |-> TRUE]
            /\ IF resp.kind = "Ok"
               THEN shard_iter' = resp.iter /\ LoopHead(resp.iter)
               ELSE Return("Err", <<>>) /\ UNCHANGED shard_iter
    /\ UNCHANGED <<log, consumed, stream_name, shard_id, latest_sequence_num, assigned_split,
                   lastFetch, expiredAt, backoffDue, hist, restarts, ckpt, sib_pc, enumVars>>

\* thread::sleep(200ms) returns; `continue`.
Sleep ==
    /\ pc = "sleep"
    /\ backoffDue' = FALSE
    /\ LoopHead(shard_iter)
    /\ UNCHANGED <<log, consumed, readerVars, lastFetch, lastRenew, expiredAt, hist, restarts, ckpt,
                   sib_pc, enumVars>>

\* ------------------------------------------------- checkpoint and rebuild
\* The reader with record rd replaces the current one.
Install(rd) ==
    /\ stream_name' = rd.stream_name
    /\ shard_id' = rd.shard_id
    /\ latest_sequence_num' = rd.latest_sequence_num
    /\ shard_iter' = rd.shard_iter
    /\ assigned_split' = rd.assigned_split

LastOf(s) == IF s = <<>> THEN None ELSE Some(s[Len(s)])

\* The owner takes get_state() of the idle reader and builds its successor:
\* via = "start_offset":       new() with start_offset = state.sequence_number
\* via = "restore_from_state": new() on the split as assigned, then
\*                             restore_from_state(state).
Restart(via) ==
    /\ pc = "idle"
    /\ ThreadFree
    /\ restarts < MaxRestarts
    /\ restarts' = restarts + 1
    /\ LET st == get_state
           split == assigned_split[1]
           orig == [identifier |-> split.shard_id,
                    start_offset |-> split.start_position.seq,
                    end_offset |-> split.end_position.seq]
           state == IF via = "start_offset"
                    THEN [orig EXCEPT !.start_offset = st.sequence_number]
                    ELSE orig
           mark(outcome) == [via |-> via, state |-> st, prev |-> LastOf(emitted), outcome |-> outcome,
                             anchor |-> IF st.sequence_number # <<>> THEN Some(st.sequence_number)
                                        ELSE IF via = "start_offset" THEN None
                                        ELSE AnchorOf(KinesisSplitReader_new(orig, None))]
       IN  \E r1 \in GetShardIterator(log, NewRequest(state), consumed, shard_iter) :
            IF r1.kind # "Ok"
            THEN /\ pc' = "dead"
                 /\ ckpt' = mark(r1.kind)
                 /\ UNCHANGED readerVars
            ELSE LET rd == KinesisSplitReader_new(state, r1.iter)
                 IN  IF via = "start_offset"
                     THEN /\ Install(rd)
                          /\ pc' = "idle"
                          /\ ckpt' = mark("Ok")
                     ELSE \E r2 \in GetShardIterator(log, RenewRequest(st.shard_id, st.sequence_number),
                                                     consumed, r1.iter) :
                            /\ ckpt' = mark(r2.kind)
                            /\ IF r2.kind = "Ok"
                               THEN /\ Install([restore_fields(rd, st) EXCEPT !.shard_iter = r2.iter])
                                    /\ pc' = "idle"
                               ELSE /\ Install(restore_fields(rd, st))
                                    /\ pc' = "dead"
    /\ result' = "none"
    /\ delivered' = <<>>
    /\ emitted' = <<>>
    /\ lastFetch' = NoFetch
    /\ lastRenew' = NoRenew
    /\ expiredAt' = None
    /\ backoffDue' = FALSE
    /\ hist' = NoHist
    /\ UNCHANGED <<log, consumed, sib_pc, enumVars>>

\* ------------------------------------------------------ sibling merged task
\* tests::stream: loop { yield i; std::thread::sleep(..) }, merged with the
\* reader on one thread.
SibYield ==
    /\ sib_pc = "ready"
    /\ pc # "sleep"
    /\ sib_pc' = "yielded"
    /\ UNCHANGED <<log, consumed, readerVars, callVars, obsVars, restarts, ckpt, enumVars>>

SibSleep ==
    /\ sib_pc = "yielded"
    /\ pc # "sleep"
    /\ sib_pc' = "sleeping"
    /\ UNCHANGED <<log, consumed, readerVars, callVars, obsVars, restarts, ckpt, enumVars>>

SibWake ==
    /\ sib_pc = "sleeping"
    /\ sib_pc' = "ready"
    /\ UNCHANGED <<log, consumed, readerVars, callVars, obsVars, restarts, ckpt, enumVars>>

RestartFromStartOffset == Restart("start_offset")

RestartFromState == Restart("restore_from_state")

Next ==
    \/ Call
    \/ DoGetRecords
    \/ DoRenew
    \/ Sleep
    \/ RestartFromStartOffset
    \/ RestartFromState

Spec == Init /\ [][Next]_vars

NextMulti ==
    \/ Call
    \/ DoGetRecords
    \/ DoRenew
    \/ Sleep
    \/ SibYield
    \/ SibSleep
    \/ SibWake

MultiSpec == InitMulti /\ [][NextMulti]_vars

\* ----------------------------------------------------- KinesisSplitEnumerator
\* The shards field of a ListShards response: absent, or a list of shards,
\* each with its optional shard_id.
ShardLists ==
    { None,
      Some(<<>>),
      Some(<<Some("shardId-0")>>),
      Some(<<Some("shardId-2"), Some("shardId-1")>>),
      Some(<<None>>) }

\* A listing of n pages: page i < n carries the token for page i + 1, the
\* last page carries none.
Listings ==
    UNION { { [i \in 1..n |-> [shards |-> f[i], next_token |-> IF i < n THEN Some(i) ELSE None]] :
                f \in [1..n -> ShardLists] } : n \in 1..MaxPages }

\* ListShards: the first page for a request without a token, else the page
\* the token stands for.
ListShards(pages, token) == IF token = None THEN pages[1] ELSE pages[token[1] + 1]

\* shard_collect.extend(shard) forgetting the shards of earlier pages.
extend_overwrite(shard_collect, shard) == shard

\* shard_collect.extend(shard)
extend(shard_collect, shard) == shard_collect \o shard

\* The closure of the final map: one KinesisSplit per collected shard.
ToSplit(x) ==
    [shard_id |-> IF x = None THEN "" ELSE x[1],
     start_position |-> OffsetNone,
     end_position |-> OffsetNone]

InitEnum ==
    /\ log = <<>>
    /\ consumed = {}
    /\ stream_name = StreamName
    /\ shard_id = ""
    /\ latest_sequence_num = <<>>
    /\ shard_iter = None
    /\ assigned_split = None
    /\ pc = "dead"
    /\ result = "none"
    /\ delivered = <<>>
    /\ emitted = <<>>
    /\ lastFetch = NoFetch
    /\ lastRenew = NoRenew
    /\ expiredAt = None
    /\ backoffDue = FALSE
    /\ hist = NoHist
    /\ restarts = 0
    /\ ckpt = NoCkpt
    /\ sib_pc = "absent"
    /\ e_pages \in Listings
    /\ e_pc = "off"
    /\ e_next_token = None
    /\ e_shard_collect = <<>>
    /\ e_requests = <<>>
    /\ e_result = None

\* list_splits() is called: next_token = None, shard_collect = Vec::new().
ListSplitsCall ==
    /\ e_pc = "off"
    /\ e_pc' = "loop"
    /\ e_next_token' = None
    /\ e_shard_collect' = <<>>
    /\ UNCHANGED <<e_pages, e_requests, e_result>>
    /\ UNCHANGED <<log, consumed, readerVars, callVars, obsVars, restarts, ckpt, sib_pc>>

\* One turn of the loop, the request fails in transit: `.await?` returns.
ListShardsFailure ==
    /\ e_pc = "loop"
    /\ e_requests' = Append(e_requests, e_next_token)
    /\ e_result' = Some([kind |-> "Err", splits |-> <<>>])
    /\ e_pc' = "done"
    /\ UNCHANGED <<e_pages, e_next_token, e_shard_collect>>
    /\ UNCHANGED <<log, consumed, readerVars, callVars, obsVars, restarts, ckpt, sib_pc>>

\* One turn of the loop with a response: the match on shards, the match on
\* next_token, and after `break` the map into splits.
ListShardsPage ==
    /\ e_pc = "loop"
    /\ e_requests' = Append(e_requests, e_next_token)
    /\ LET list_shard_output == ListShards(e_pages, e_next_token)
       IN  IF list_shard_output.shards = None
           THEN /\ e_result' = Some([kind |-> "NoShards", splits |-> <<>>])
                /\ e_pc' = "done"
                /\ UNCHANGED <<e_next_token, e_shard_collect>>
           ELSE LET collected == extend(e_shard_collect, list_shard_output.shards[1])
                IN  /\ e_shard_collect' = collected
                    /\ IF list_shard_output.next_token # None
                       THEN /\ e_next_token' = list_shard_output.next_token
                            /\ UNCHANGED <<e_pc, e_result>>
                       ELSE /\ e_result' = Some([kind |-> "Ok",
                                                 splits |-> [i \in 1..Len(collected) |-> ToSplit(collected[i])]])
                            /\ e_pc' = "done"
                            /\ UNCHANGED e_next_token
    /\ UNCHANGED e_pages
    /\ UNCHANGED <<log, consumed, readerVars, callVars, obsVars, restarts, ckpt, sib_pc>>

NextEnum ==
    \/ ListSplitsCall
    \/ ListShardsFailure
    \/ ListShardsPage

EnumSpec == InitEnum /\ [][NextEnum]_vars

\* ------------------------------------------------------------------ fairness
\* The runtime keeps polling a next() future that is not finished: a pending
\* get_records, renewal or sleep completes.  Whether next() is called again
\* is up to the caller.
FairSpec ==
    /\ Init
    /\ [][Next]_vars
    /\ WF_vars(DoGetRecords)
    /\ WF_vars(DoRenew)
    /\ WF_vars(Sleep)

\* ===================================================================== claims
EndBound == assigned_split[1].end_position

BeforeBound(seq) == EndBound.tag = "SequenceNumber" => StrLess(seq, EndBound.seq)

\* The records of s that lie before the stop bound.
RECURSIVE KeepBefore(_)
KeepBefore(s) ==
    IF s = <<>> THEN <<>>
    ELSE IF BeforeBound(Head(s)) THEN <<Head(s)>> \o KeepBefore(Tail(s))
    ELSE KeepBefore(Tail(s))

\* C1: the sequence numbers of all records one reader has emitted, over any
\* sequence of next() calls, are strictly increasing.
C1_MonotonicEmission == Increasing(emitted)

\* A next() call that renewed an expired iterator and then delivered records,
\* after records of earlier calls.
C1_Witness ==
    /\ pc = "idle"
    /\ result = "Ok"
    /\ lastRenew.kind = "Ok"
    /\ delivered # <<>>
    /\ Len(emitted) > Len(delivered)

\* C2: an ExpiredIterator failure after the reader emitted s is answered by a
\* renewal request of type AFTER_SEQUENCE_NUMBER anchored at s; on a
\* successful renewal the same next() call refetches with the new iterator
\* and nothing has been returned to the caller; the records emitted after the
\* expiry are the shard's records right after s, none repeated, none missing.
C2_RenewalTransparent ==
    /\ lastFetch.kind = "ExpiredIterator" => (pc = "renew" \/ lastRenew.fresh)
    /\ (lastRenew.fresh /\ emitted # <<>>) =>
            /\ lastRenew.req.type = "AFTER_SEQUENCE_NUMBER"
            /\ lastRenew.req.seq = emitted[Len(emitted)]
    /\ (lastRenew.fresh /\ lastRenew.kind = "Ok" /\ lastRenew.iter # None) =>
            /\ pc = "fetch"
            /\ result = "none"
            /\ shard_iter = lastRenew.iter
    /\ (lastFetch.retry /\ ~lastRenew.fresh) => lastFetch.iter = lastRenew.iter
    /\ (expiredAt # None /\ expiredAt # Some(0)) =>
            LET n == expiredAt[1]
                p == PosAfter(log, emitted[n])
            IN  \A k \in (n + 1)..Len(emitted) :
                    /\ p + (k - n) <= Len(log)
                    /\ emitted[k] = log[p + (k - n)]

\* After emitting, the iterator expired, the renewal succeeded, the retried
\* fetch of the same call delivered further records.
C2_Witness ==
    /\ expiredAt # None
    /\ expiredAt # Some(0)
    /\ lastFetch.retry
    /\ lastFetch.kind = "Ok"
    /\ result = "Ok"
    /\ Len(emitted) > expiredAt[1]

\* C3: a reader rebuilt from get_state() of a reader that emitted up to s
\* (by restore_from_state, or by new() with start offset s) is obtained
\* whenever the service is reachable, and emits the shard's records right
\* after s: nothing at or before s, nothing after s left out.
C3_CheckpointRoundTrip ==
    (ckpt.via # "none" /\ ckpt.prev # None /\ ckpt.outcome # "Failure") =>
        /\ pc # "dead"
        /\ LET p == PosAfter(log, ckpt.prev[1])
           IN  \A k \in 1..Len(emitted) :
                /\ StrLess(ckpt.prev[1], emitted[k])
                /\ p + k <= Len(log)
                /\ emitted[k] = log[p + k]

\* C4: never a record at or past the stop bound is emitted, and every Ok
\* return of next() delivers exactly the records of the fetched batch that
\* lie before the bound, in order; without a SequenceNumber bound it
\* delivers the whole batch.
C4_StopBoundary ==
    /\ \A k \in 1..Len(emitted) : BeforeBound(emitted[k])
    /\ (pc = "idle" /\ result = "Ok") => SeqsOf(delivered) = KeepBefore(lastFetch.records)
    /\ (pc = "idle" /\ result = "Ok" /\ EndBound.tag # "SequenceNumber") =>
            SeqsOf(delivered) = lastFetch.records

\* The bound falls inside a fetched batch: a record before it is delivered,
\* the rest of the batch is not.
C4_Witness ==
    /\ pc = "idle"
    /\ result = "Ok"
    /\ EndBound.tag = "SequenceNumber"
    /\ delivered # <<>>
    /\ Len(delivered) < Len(lastFetch.records)

\* C5: a next() call does not go on renewing and refetching forever: it is
\* not, from some point on, for ever between an ExpiredIterator failure and
\* the next one.
C5_BoundedRetry == []<>(~(pc \in {"fetch", "renew"} /\ lastFetch.kind = "ExpiredIterator"))

\* The shards of all pages, in page order (pages without a list add none).
RECURSIVE AllShards(_)
AllShards(pages) ==
    IF pages = <<>> THEN <<>>
    ELSE (IF Head(pages).shards = None THEN <<>> ELSE Head(pages).shards[1]) \o AllShards(Tail(pages))

\* C6: list_splits never sends more requests than there are pages, the first
\* without a token and each later one with the token of the page before; it
\* fails only on a transport failure or a page without a shard list, and
\* otherwise returns after exactly one request per page with one split per
\* shard of every page, in page order.
C6_PaginationComplete ==
    /\ Len(e_requests) <= Len(e_pages)
    /\ \A i \in 1..Len(e_requests) :
            e_requests[i] = IF i = 1 THEN None ELSE e_pages[i - 1].next_token
    /\ (e_pc = "done" /\ e_result[1].kind = "NoShards") =>
            e_pages[Len(e_requests)].shards = None
    /\ (e_pc = "done" /\ e_result[1].kind = "Ok") =>
            /\ Len(e_requests) = Len(e_pages)
            /\ Len(e_result[1].splits) = Len(AllShards(e_pages))
            /\ \A i \in 1..Len(e_result[1].splits) :
                    /\ e_result[1].splits[i].shard_id =
                            (IF AllShards(e_pages)[i] = None THEN "" ELSE AllShards(e_pages)[i][1])
                    /\ e_result[1].splits[i].start_position = OffsetNone
                    /\ e_result[1].splits[i].end_position = OffsetNone

\* A listing of several pages, each with shards, returned in full.
C6_Witness ==
    /\ e_pc = "done"
    /\ e_result[1].kind = "Ok"
    /\ Len(e_pages) >= 3
    /\ \A i \in 1..Len(e_pages) : e_pages[i].shards # None /\ Len(e_pages[i].shards[1]) >= 1
    /\ Len(e_result[1].splits) > Len(e_pages)

\* C7: list_splits returns Ok only when every page reported at least one
\* shard, and never with an empty collection of splits.
C7_ZeroPartitionFailure ==
    (e_pc = "done" /\ e_result[1].kind = "Ok") =>
        /\ e_result[1].splits # <<>>
        /\ \A i \in 1..Len(e_pages) : e_pages[i].shards # None /\ e_pages[i].shards[1] # <<>>

\* C8: after a fetch failed with ProvisionedThroughputExceeded the call has
\* returned an error, with no renewal and no further fetch issued after it.
C8_ThroughputSurfaced ==
    lastFetch.kind = "ProvisionedThroughputExceeded" =>
        /\ pc = "idle"
        /\ result = "Err"
        /\ ~lastRenew.fresh

C8_Witness ==
    /\ lastFetch.kind = "ProvisionedThroughputExceeded"
    /\ lastFetch.iter # None
    /\ pc = "idle"

\* C9: after a fetch that succeeded with no records the reader is in its
\* backoff sleep until the sleep is over; it is never about to fetch with a
\* backoff still due.
C9_BackoffOnEmpty ==
    /\ backoffDue => pc = "sleep"
    /\ pc = "fetch" => ~backoffDue

\* The fetch after an empty fetch with a next iterator: about to be issued,
\* the sleep done.
C9_Witness ==
    /\ pc = "fetch"
    /\ lastFetch.kind = "Ok"
    /\ lastFetch.records = <<>>
    /\ lastFetch.next # None
    /\ shard_iter = lastFetch.next

\* C10: while the reader is in its empty-fetch backoff wait, a sibling task
\* that is ready to emit can take its step.
C10_SiblingNotBlocked == (pc = "sleep" /\ sib_pc = "ready") => ENABLED SibYield

\* C11: whenever next() has returned, get_state().sequence_number is the
\* sequence number of the last record emitted so far by this reader, and it
\* is never the sequence number of a record that the last fetch returned but
\* next() did not emit (one at or past the stop bound).
C11_CheckpointIsLastEmitted ==
    pc = "idle" =>
        /\ emitted # <<>> => get_state.sequence_number = emitted[Len(emitted)]
        /\ result = "Ok" =>
              \A i \in (Len(delivered) + 1)..Len(lastFetch.records) :
                  get_state.sequence_number # lastFetch.records[i]

\* next() returned a batch that the stop bound cut short, and the checkpoint
\* names the last record of what was emitted.
C11_Witness ==
    /\ pc = "idle"
    /\ result = "Ok"
    /\ delivered # <<>>
    /\ Len(delivered) < Len(lastFetch.records)
    /\ get_state.sequence_number = delivered[Len(delivered)].sequence_number
    /\ get_state.sequence_number = emitted[Len(emitted)]

\* C12: Stopped is terminal after the stop bound: once next() has met a
\* record at or past end_position, the reader issues no further fetch in
\* any later next() invocation.
C12_StoppedTerminal == hist.stopped => pc # "fetch"

\* C13: closed partition: when a fetch succeeds without a next iterator the
\* reader delivers that batch (up to the stop bound) and is then stopped: it
\* issues no further fetch, and the end of the closed partition is not
\* reported to the caller as an error.
C13_ClosedPartition ==
    hist.closed =>
        /\ pc \notin {"fetch", "renew"}
        /\ (pc = "idle" /\ result = "Ok") => SeqsOf(delivered) = KeepBefore(lastFetch.records)
        /\ result # "Err"

\* C14: Failed is terminal: a fetch error that is neither ExpiredIterator
\* nor ProvisionedThroughputExceeded makes next() return an error without a
\* retry inside the call, and the reader issues no further fetch in any
\* later next() invocation (the first fetch after the failure would be
\* issued with hist.failed still set).
C14_FailedTerminal ==
    /\ lastFetch.kind \in {"DispatchFailure", "OtherServiceError"} => (pc = "idle" /\ result = "Err")
    /\ hist.failed => pc # "fetch"

\* The reader is about to issue the fetch that follows an empty fetch of
\* the same call, its backoff sleep over.
AfterBackoff ==
    /\ pc = "fetch"
    /\ lastFetch.kind = "Ok"
    /\ lastFetch.records = <<>>
    /\ ~backoffDue

\* C15 as stated: the fetch issued after the backoff wait uses the same
\* iterator that was used for the empty fetch.
C15_SameTokenAfterBackoff == AfterBackoff => shard_iter = lastFetch.iter

\* C15, amended: the fetch issued after the backoff wait uses the next
\* iterator that the empty fetch returned, not the iterator that fetch used,
\* which is consumed.
C15_NextTokenAfterBackoff ==
    AfterBackoff =>
        /\ shard_iter = lastFetch.next
        /\ shard_iter # lastFetch.iter

\* After an empty fetch and its sleep the reader holds the returned iterator
\* and the one it fetched with is consumed.
C15_Witness ==
    /\ AfterBackoff
    /\ shard_iter # None
    /\ shard_iter = lastFetch.next
    /\ lastFetch.iter[1].id \in consumed
    /\ shard_iter[1].id \notin consumed

\* C16: renewal never rewinds before anything was emitted: a reader built
\* with start position SequenceNumber(s), or restored from a checkpoint at s,
\* whose iterator expires before it emitted anything sends a renewal request
\* of type AFTER_SEQUENCE_NUMBER anchored at s, and what it emits after the
\* renewal is the shard's records right after s.
C16_RenewalAnchor ==
    ckpt.anchor # None =>
        /\ (lastRenew.kind # "none" /\ emitted = <<>>) =>
                /\ lastRenew.req.type = "AFTER_SEQUENCE_NUMBER"
                /\ lastRenew.req.seq = ckpt.anchor[1]
        /\ expiredAt = Some(0) =>
                LET p == PosAfter(log, ckpt.anchor[1])
                IN  \A k \in 1..Len(emitted) :
                        /\ p + k <= Len(log)
                        /\ emitted[k] = log[p + k]

\* C17: in every state of a reader built by new() from an assigned split,
\* the reader's own shard id equals the split's: in the reader's field, in
\* get_state(), in the renewal requests it sends and in the messages it
\* emits.
C17_PartitionIdentity ==
    pc # "dead" =>
        LET id == assigned_split[1].shard_id
        IN  /\ shard_id = id
            /\ get_state.shard_id = id
            /\ lastRenew.kind # "none" => lastRenew.req.shard_id = id
            /\ \A i \in 1..Len(delivered) : delivered[i].shard_id = id

\* C18: single-use iterators: the reader never issues a fetch with an
\* iterator that an earlier successful fetch consumed, and after each
\* successful fetch its current iterator is the next iterator that fetch
\* returned (or none, when none was returned).
C18_SingleUseTokens ==
    /\ pc = "fetch" =>
            /\ shard_iter # None
            /\ shard_iter[1].id \notin consumed
    /\ lastFetch.kind = "Ok" =>
            /\ lastFetch.iter[1].id \in consumed
            /\ shard_iter = lastFetch.next

\* A fetch is about to be issued after two successful fetches consumed
\* their iterators and records were emitted.
C18_Witness ==
    /\ pc = "fetch"
    /\ Cardinality(consumed) >= 2
    /\ emitted # <<>>
    /\ shard_iter[1].id \notin consumed

\* The errors of get_records that next() hands to its caller.
ReturnedErrors == {"DispatchFailure", "ProvisionedThroughputExceeded", "OtherServiceError"}

\* The records emitted so far are consecutive records of the shard.
EmittedContiguous ==
    \A k \in 1..(Len(emitted) - 1) :
        LET p == PosAfter(log, emitted[k])
        IN  p + 1 <= Len(log) /\ emitted[k + 1] = log[p + 1]

\* C19: a get_records that fails with ProvisionedThroughputExceeded or a
\* transport or service failure makes next() return the error and leaves the
\* reader's iterator and latest sequence number as they were (nothing is
\* emitted, no iterator is consumed), so that what the reader emits over
\* later calls stays consecutive: no record lost, none repeated.
C19_ErrorLeavesPosition ==
    /\ [][(pc = "fetch" /\ lastFetch'.kind \in ReturnedErrors) =>
            /\ pc' = "idle"
            /\ result' = "Err"
            /\ shard_iter' = shard_iter
            /\ latest_sequence_num' = latest_sequence_num
            /\ emitted' = emitted
            /\ consumed' = consumed]_vars
    /\ []EmittedContiguous

\* After records were emitted a call has returned a transport failure, and
\* the reader still holds the iterator of the failed fetch and the sequence
\* number of the last emitted record.
C19_Witness ==
    /\ pc = "idle"
    /\ result = "Err"
    /\ lastFetch.kind = "DispatchFailure"
    /\ emitted # <<>>
    /\ shard_iter = lastFetch.iter
    /\ latest_sequence_num = emitted[Len(emitted)]

\* C20: every successful return of next() delivers a non-empty batch: next()
\* never returns Ok with an empty record collection, whatever the batch and
\* the stop bound.
C20_NonEmptyBatch == (pc = "idle" /\ result = "Ok") => delivered # <<>>

====
